---- MODULE Spec2Model ----
(***************************************************************************)
(* Model of src/TicTakToe/game.cpp: cell, Board, GameRules and the play    *)
(* loop of Game.                                                           *)
(*                                                                         *)
(* Model of src/LoggerClass/logger.cpp: logReader, logParser,              *)
(* errorAggregator and the loop of its main (specification SpecLog).       *)
(*                                                                         *)
(* The specifications share the variables.                                 *)
(*   Spec      : one session, as main() runs it: a Game is constructed and *)
(*               play() reads move requests until it breaks out of its     *)
(*               loop.                                                     *)
(*   SpecBoard : a Board object used through its public methods (MarkCell, *)
(*               isFull) and GameRules::isWinningMove applied to it, so    *)
(*               that the three functions are exercised on every grid.     *)
(*                                                                         *)
(* Reading of the source where it does not compile: an identifier that is  *)
(* not declared is read as the declared one it stands for (i, j in         *)
(* MarkCell are row, col; ntiDiag is antiDiag; markCell is MarkCell;       *)
(* Player is player).  Statements are otherwise modelled as written.       *)
(***************************************************************************)
EXTENDS Integers, FiniteSets, Sequences, TLC

\* ---------------------------------------------------------------- bounds
MaxSize == 3          \* largest board size of a session
MaxBoardSize == 2     \* largest board size of the Board-level specification
MaxRequests == 3      \* move requests read by the play loop
MaxUnread == 2        \* move requests typed after play() has returned
MaxLines == 3         \* lines of the log file

\* ------------------------------------------------------------ vocabulary
Empty == " "                       \* cell::cell sets value(' ')
Symbols == {"X", "O"}              \* player symbols used by the sessions
Values == Symbols \cup {Empty}
Idx(n) == 0 .. (n - 1)
Coords == -1 .. MaxSize            \* row / col typed by the caller
InRange(n, r, c) == r \in Idx(n) /\ c \in Idx(n)
NoReq == <<-9, -9>>
NoCall == [op |-> "none"]

VARIABLES
  size,       \* Board::size
  board,      \* Board::grid, board[i][j] is the value of cell (i, j)
  p1, p2,     \* symbols of Game::p1 and Game::p2
  current,    \* Game::currentPlayer: 1 for &p1, 2 for &p2
  state,      \* position of play(): "InProgress" in the loop, "Won" after the
              \* break of line 142, "Draw" after the break of line 147,
              \* "Crashed" when an out-of-grid access killed the process
  winner,     \* symbol announced by line 140, Empty before
  lastMsg,    \* last message printed by the loop body
  placed,     \* number of requests for which markCell returned true
  lastMover,  \* player (1 or 2) of the last such request, 0 before
  reqCount,   \* number of requests read by line 132
  lastReq,    \* the last request read, <<row, col>>
  oob,        \* TRUE once grid[row][col] was evaluated outside the grid
  unread,     \* requests left on the input after play() returned
  call,       \* SpecBoard: the last method call, its arguments and result
  mfile,      \* logReader::mfile: the lines of the file not read yet
  errorcount, \* errorAggregator::errorcount, a function key -> count
  consumed    \* the lines returned by getNextLine so far, in order

vars == <<size, board, p1, p2, current, state, winner, lastMsg, placed,
          lastMover, reqCount, lastReq, oob, unread, call,
          mfile, errorcount, consumed>>

logVars == <<mfile, errorcount, consumed>>

sessionVars == <<p1, p2, current, state, winner, lastMsg, placed, lastMover,
                 reqCount, lastReq, oob, unread>>

\* ------------------------------------------------------------------ cell
isEmpty(v) == v = Empty

\* -------------------------------------------------------------- Board
\* Board::Board: every cell (i, j) is assigned cell(i, j), whose value is ' '.
NewGrid(n) == [i \in Idx(n) |-> [j \in Idx(n) |-> Empty]]

\* Board::MarkCell without the isEmpty test (used to validate the checks).
MarkCell_NoCheck(g, r, c, s) ==
  [grid |-> [g EXCEPT ![r][c] = s], ret |-> TRUE]

\* Board::MarkCell with row and col exchanged in the write (used to validate
\* the checks).
MarkCell_Transposed(g, r, c, s) ==
  IF isEmpty(g[r][c])
    THEN [grid |-> [g EXCEPT ![c][r] = s], ret |-> TRUE]
    ELSE [grid |-> g, ret |-> FALSE]

\* Board::MarkCell for indices inside the grid.
MarkCell(g, r, c, s) ==
  IF isEmpty(g[r][c])
    THEN [grid |-> [g EXCEPT ![r][c] = s], ret |-> TRUE]
    ELSE [grid |-> g, ret |-> FALSE]

\* Board::isFull: the range-for over the rows returns inside its first
\* iteration (line 67 is inside the outer loop body), so only grid[0] is read.
isFull(g, n) == \A j \in Idx(n) : ~isEmpty(g[0][j])

\* ------------------------------------------------------------ GameRules
\* Lines 83-95.  rowWin and colWin are reset for each i; both tests of the
\* inner loop clear rowWin (lines 88 and 91), colWin is never cleared, and
\* the test of line 93 is inside the inner loop.  FALSE: the loops ran to
\* completion without returning.
\* The scan with the column test left out (used to validate the checks).
RowColScan_RowOnly(g, n, s, i, j, rowWin, colWin) ==
  \E r \in Idx(n) : \A c \in Idx(n) : g[r][c] = s

RECURSIVE RowColScan(_, _, _, _, _, _, _)
RowColScan(g, n, s, i, j, rowWin, colWin) ==
  IF i >= n THEN FALSE
  ELSE IF j >= n THEN RowColScan(g, n, s, i + 1, 0, TRUE, TRUE)
  ELSE LET rw1 == IF g[i][j] # s THEN FALSE ELSE rowWin
           rw2 == IF g[j][i] # s THEN FALSE ELSE rw1
       IN  IF rw2 \/ colWin THEN TRUE
           ELSE RowColScan(g, n, s, i, j + 1, rw2, colWin)

\* Lines 97-104.
DiagScan(g, n, s) ==
  LET mainDiag == \A i \in Idx(n) : g[i][i] = s
      antiDiag == \A i \in Idx(n) : g[i][n - 1 - i] = s
  IN  mainDiag \/ antiDiag

isWinningMove(g, n, s) ==
  RowColScan(g, n, s, 0, 0, TRUE, TRUE) \/ DiagScan(g, n, s)

\* ----------------------------------------------------------------- Game
getSymbol(p) == IF p = 1 THEN p1 ELSE p2
switchTurn(p) == IF p = 1 THEN 2 ELSE 1

\* Lines 134-137 with the turn handed over on a rejected request.
InvalidMove_Forfeit ==
  /\ lastMsg' = "Invalid"
  /\ current' = switchTurn(current)
  /\ UNCHANGED <<board, state, winner, placed, lastMover>>

\* Lines 134-137: markCell returned false; message, then continue.
InvalidMove ==
  /\ lastMsg' = "Invalid"
  /\ UNCHANGED <<board, current, state, winner, placed, lastMover>>

\* Lines 139-149, after markCell returned true and left the grid g.
AfterPlacement(g) ==
  /\ board' = g
  /\ placed' = placed + 1
  /\ lastMover' = current
  /\ IF isWinningMove(g, size, getSymbol(current))
       THEN /\ state' = "Won"
            /\ winner' = getSymbol(current)
            /\ lastMsg' = "Wins"
            /\ current' = current
       ELSE IF isFull(g, size)
         THEN /\ state' = "Draw"
              /\ lastMsg' = "Draw"
              /\ UNCHANGED <<winner, current>>
         ELSE /\ current' = switchTurn(current)
              /\ lastMsg' = "Placed"
              /\ UNCHANGED <<state, winner>>

\* One iteration of the loop of play() on the request (r, c).
\* MarkCell has no bounds test: for indices outside the grid the expression
\* grid[row][col] is undefined behaviour.  Its outcomes: the process dies;
\* the read yields a non-blank byte and the request is rejected; the read
\* yields a blank, setValue writes outside the grid and the request counts
\* as placed with the grid untouched.
Iteration(r, c) ==
  /\ reqCount' = reqCount + 1
  /\ lastReq' = <<r, c>>
  /\ UNCHANGED <<size, p1, p2, unread, call>>
  /\ UNCHANGED logVars
  /\ IF InRange(size, r, c)
       THEN LET res == MarkCell(board, r, c, getSymbol(current))
            IN  /\ oob' = oob
                /\ IF res.ret THEN AfterPlacement(res.grid) ELSE InvalidMove
       ELSE /\ oob' = TRUE
            /\ \/ /\ state' = "Crashed"
                  /\ UNCHANGED <<board, current, winner, lastMsg, placed,
                                 lastMover>>
               \/ InvalidMove
               \/ AfterPlacement(board)

\* play() with the loop never left (used to validate the checks).
play_NoBreak(r, c) ==
  /\ reqCount < MaxRequests
  /\ Iteration(r, c)

\* play(): the loop runs until one of its breaks.
play(r, c) ==
  /\ state = "InProgress"
  /\ reqCount < MaxRequests
  /\ Iteration(r, c)

\* main(): play() has returned (or the process died) and main returns; a
\* request typed now is never read.
MoveAfterEnd ==
  /\ state # "InProgress"
  /\ unread < MaxUnread
  /\ unread' = unread + 1
  /\ UNCHANGED <<size, board, p1, p2, current, state, winner, lastMsg,
                 placed, lastMover, reqCount, lastReq, oob, call>>
  /\ UNCHANGED logVars

\* Game::Game: p1(a), p2(b), board(boardSize), currentPlayer(&p1).
GameStart(n, a, b) ==
  /\ size = n
  /\ board = NewGrid(n)
  /\ p1 = a
  /\ p2 = b
  /\ current = 1
  /\ state = "InProgress"
  /\ winner = Empty
  /\ lastMsg = "none"
  /\ placed = 0
  /\ lastMover = 0
  /\ reqCount = 0
  /\ lastReq = NoReq
  /\ oob = FALSE
  /\ unread = 0
  /\ call = NoCall

\* errorAggregator's map after construction.
NoCounts == [k \in {} |-> 0]

\* The game program: the log utility is not part of it.
SessionStart(n, a, b) ==
  /\ GameStart(n, a, b)
  /\ mfile = <<>>
  /\ errorcount = NoCounts
  /\ consumed = <<>>

\* The constructor tests neither the size nor the symbols: a board of size 0
\* and two players with one symbol are sessions too.
Init == \E n \in 0 .. MaxSize : \E a \in Symbols, b \in Symbols :
          SessionStart(n, a, b)

Next ==
  \/ \E r \in Coords, c \in Coords : play(r, c)
  \/ MoveAfterEnd

Spec == Init /\ [][Next]_vars

\* A caller that keeps submitting in-range moves on empty cells: such a
\* request is read whenever the loop runs and such a cell exists.
ValidMove(r, c) ==
  /\ state = "InProgress"
  /\ InRange(size, r, c)
  /\ isEmpty(board[r][c])
  /\ Iteration(r, c)

NextLive ==
  \/ \E r \in Coords, c \in Coords : play(r, c)
  \/ MoveAfterEnd
  \/ \E r \in Coords, c \in Coords : ValidMove(r, c)

SpecLive ==
  /\ Init
  /\ [][NextLive]_vars
  /\ WF_vars(\E r \in Coords, c \in Coords : ValidMove(r, c))

\* ------------------------------------------------ Board-level specification
CallMarkCell(r, c, s) ==
  LET res == MarkCell(board, r, c, s)
  IN  /\ board' = res.grid
      /\ call' = [op |-> "MarkCell", row |-> r, col |-> c, sym |-> s,
                  pre |-> board, ret |-> res.ret]
      /\ UNCHANGED <<size>>
      /\ UNCHANGED sessionVars
      /\ UNCHANGED logVars

CallIsFull ==
  /\ call' = [op |-> "isFull", ret |-> isFull(board, size)]
  /\ UNCHANGED <<size, board>>
  /\ UNCHANGED sessionVars
  /\ UNCHANGED logVars

CallIsWinningMove(s) ==
  /\ call' = [op |-> "isWinningMove", sym |-> s,
              ret |-> isWinningMove(board, size, s)]
  /\ UNCHANGED <<size, board>>
  /\ UNCHANGED sessionVars
  /\ UNCHANGED logVars

InitBoard == \E n \in 1 .. MaxBoardSize : SessionStart(n, "X", "O")

NextBoard ==
  \/ \E r \in Idx(size), c \in Idx(size), s \in Symbols : CallMarkCell(r, c, s)
  \/ CallIsFull
  \/ \E s \in Symbols : CallIsWinningMove(s)

SpecBoard == InitBoard /\ [][NextBoard]_vars

\* ------------------------------------------------------------ log utility
\* A line is the sequence of its characters.
ErrorWord == <<"E", "r", "r", "o", "r">>
Lines ==
  { <<"E", "r", "r", "o", "r", ":", "a">>,
    <<"x", "E", "r", "r", "o", "r">>,
    <<"e", "r", "r", "o", "r">>,
    <<"o", "k">>,
    <<>> }

\* Sequences of at most n lines.
LogFiles(n) == UNION {[1 .. k -> Lines] : k \in 0 .. n}

\* string::find(pat) != npos
Contains(line, pat) ==
  \E k \in 1 .. (Len(line) - Len(pat) + 1) :
    SubSeq(line, k, k + Len(pat) - 1) = pat

\* logParser::parseError
parseError(line) == IF Contains(line, ErrorWord) THEN line ELSE <<>>

\* errorAggregator::addError: errorcount[errorMsg]++ (operator[] inserts the
\* key with count 0 when it is absent).
addError(m, errorMsg) ==
  [k \in DOMAIN m \cup {errorMsg} |->
     IF k = errorMsg
       THEN (IF errorMsg \in DOMAIN m THEN m[errorMsg] ELSE 0) + 1
       ELSE m[k]]

\* One iteration of the loop of main: hasNextLine, getNextLine, parseError,
\* addError.
ReadLine ==
  /\ mfile # <<>>
  /\ LET line == Head(mfile)
     IN  /\ mfile' = Tail(mfile)
         /\ consumed' = Append(consumed, line)
         /\ errorcount' = addError(errorcount, parseError(line))
  /\ UNCHANGED <<size, board, call>>
  /\ UNCHANGED sessionVars

InitLog ==
  /\ GameStart(1, "X", "O")
  /\ mfile \in LogFiles(MaxLines)
  /\ errorcount = NoCounts
  /\ consumed = <<>>

NextLog == ReadLine

SpecLog == InitLog /\ [][NextLog]_vars

\* ------------------------------------------------------------- properties
\* A win line of s on the grid g: a row, a column, the main diagonal or the
\* anti-diagonal with all n cells equal to s.
HasWinLine(g, n, s) ==
  \/ \E i \in Idx(n) : \A j \in Idx(n) : g[i][j] = s
  \/ \E j \in Idx(n) : \A i \in Idx(n) : g[i][j] = s
  \/ \A i \in Idx(n) : g[i][i] = s
  \/ \A i \in Idx(n) : g[i][n - 1 - i] = s

AllOccupied(g, n) == \A i \in Idx(n) : \A j \in Idx(n) : g[i][j] # Empty

\* C1: isWinningMove(board, s) returns true if and only if s has a win line
\* (full row, full column, main diagonal or anti-diagonal) on the board.
C1_WinIffLine ==
  call.op = "isWinningMove" =>
    (call.ret <=> HasWinLine(board, size, call.sym))

\* C2: isFull returns true if and only if every cell of the whole grid is
\* occupied (a full first row with an empty cell elsewhere gives false).
C2_FullIffAllOccupied ==
  call.op = "isFull" => (call.ret <=> AllOccupied(board, size))

\* C3: whenever the session is Won (all requests so far inside the grid), the
\* announced symbol has a win line on the board and is the symbol of the
\* player of the last placement.
C3_WonHasLineOfMover ==
  (state = "Won" /\ ~oob) =>
    /\ HasWinLine(board, size, winner)
    /\ lastMover # 0
    /\ winner = getSymbol(lastMover)

\* The scenario of C4: X:(0,0), O:(1,1), X:(0,1), O:(2,2), X:(0,2).
ScenarioMoves == << <<0, 0>>, <<1, 1>>, <<0, 1>>, <<2, 2>>, <<0, 2>> >>
ScenarioBoard(k) ==
  [i \in Idx(3) |-> [j \in Idx(3) |->
     IF \E m \in 1 .. k : ScenarioMoves[m] = <<i, j>>
       THEN IF (CHOOSE m \in 1 .. k : ScenarioMoves[m] = <<i, j>>) % 2 = 1
              THEN "X" ELSE "O"
       ELSE Empty]]

\* C4: on a 3x3 board with players X and O the scenario is accepted move by
\* move: after each of the first four placements the game is InProgress and
\* the other player is to move, and after the fifth the state is Won(X).
C4_ScenarioAccepted ==
  (size = 3 /\ p1 = "X" /\ p2 = "O" /\ ~oob) =>
    /\ \A k \in 1 .. 4 :
         board = ScenarioBoard(k) =>
           (state = "InProgress" /\ current = (IF k % 2 = 1 THEN 2 ELSE 1))
    /\ board = ScenarioBoard(5) => (state = "Won" /\ winner = "X")

\* C5: placements on distinct in-range cells that never produce a win line
\* are all accepted and end in Draw: while neither symbol has a win line the
\* session is InProgress as long as a cell is empty, and Draw once the
\* N*N-th placement has filled the board.
C5_NoWinnerFillsToDraw ==
  (p1 # p2 /\ ~oob /\ ~HasWinLine(board, size, p1)
            /\ ~HasWinLine(board, size, p2)) =>
    IF AllOccupied(board, size) THEN state = "Draw"
                                ELSE state = "InProgress"

C8_OccupiedRejected ==
  (call.op = "MarkCell" /\ ~isEmpty(call.pre[call.row][call.col])) =>
    (call.ret = FALSE /\ board = call.pre)

C8_Witness ==
  /\ call.op = "MarkCell"
  /\ ~isEmpty(call.pre[call.row][call.col])
  /\ call.pre[call.row][call.col] # call.sym
  /\ call.ret = FALSE

\* C9: a request whose row or column is outside [0, size) is rejected as an
\* ordinary result: nothing outside the grid is accessed, the board is
\* unchanged and the game stays InProgress.
C9_OutOfBoundsRejected ==
  [][(reqCount' = reqCount + 1 /\ ~InRange(size, lastReq'[1], lastReq'[2])) =>
       (/\ lastMsg' = "Invalid"
        /\ oob' = FALSE
        /\ board' = board
        /\ state' = "InProgress")]_vars

\* C10: a request that the board rejects (markCell returns false) while the
\* game is InProgress leaves the game InProgress, the board and the active
\* player unchanged: the same player is prompted again.
C10_RejectionKeepsTurn ==
  [][(reqCount' = reqCount + 1 /\ placed' = placed /\ state' # "Crashed") =>
       (/\ state = "InProgress"
        /\ state' = "InProgress"
        /\ current' = current
        /\ board' = board
        /\ lastMsg' = "Invalid")]_vars

C10_Witness ==
  reqCount > 0 /\ placed = 0 /\ lastMsg = "Invalid" /\ state = "InProgress"

\* C11: a MarkCell that returns true found the cell (row, col) empty, leaves
\* it holding the symbol, and leaves every other cell and the extent of the
\* grid as they were.
C11_PlacementChangesOneCell ==
  (call.op = "MarkCell" /\ call.ret) =>
    /\ isEmpty(call.pre[call.row][call.col])
    /\ board[call.row][call.col] = call.sym
    /\ DOMAIN board = DOMAIN call.pre
    /\ \A i \in Idx(size) :
         /\ DOMAIN board[i] = DOMAIN call.pre[i]
         /\ \A j \in Idx(size) :
              <<i, j>> # <<call.row, call.col>> =>
                board[i][j] = call.pre[i][j]

C11_Witness ==
  /\ call.op = "MarkCell"
  /\ call.ret
  /\ call.row # call.col
  /\ \E i \in Idx(size), j \in Idx(size) : ~isEmpty(call.pre[i][j])

Transpose(g, n) == [i \in Idx(n) |-> [j \in Idx(n) |-> g[j][i]]]
FullRow(g, n, s) == \E i \in Idx(n) : \A j \in Idx(n) : g[i][j] = s
FullColumn(g, n, s) == \E j \in Idx(n) : \A i \in Idx(n) : g[i][j] = s

C13_OccupiedCellKeepsSymbol ==
  [][\A i \in Idx(size) : \A j \in Idx(size) :
       (~isEmpty(board[i][j])) => (board'[i][j] = board[i][j])]_vars

C13_Witness ==
  /\ call.op = "MarkCell"
  /\ \E i \in Idx(size), j \in Idx(size) :
       /\ <<i, j>> = <<call.row, call.col>>
       /\ call.pre[i][j] \in Symbols
       /\ call.sym \in Symbols \ {call.pre[i][j]}
       /\ board[i][j] = call.pre[i][j]

Count(g, n, s) ==
  Cardinality({ij \in Idx(n) \X Idx(n) : g[ij[1]][ij[2]] = s})
Occupied(g, n) ==
  Cardinality({ij \in Idx(n) \X Idx(n) : ~isEmpty(g[ij[1]][ij[2]])})

\* C14: in every session state the number of occupied cells equals the
\* number of requests that were accepted (markCell returned true).
C14_OccupiedEqualsPlaced == Occupied(board, size) = placed

\* C15: a session exists only for a board size of at least 1 and two players
\* with different symbols; it starts InProgress with the first player active.
C15_ValidConfiguration ==
  /\ size >= 1
  /\ p1 # p2
  /\ reqCount = 0 => (state = "InProgress" /\ current = 1)

\* C17: the cells of the first player's symbol outnumber those of the second
\* player's symbol by 0 or 1; while InProgress the difference is 0 exactly
\* when the first player is active and 1 exactly when the second is.
C17_SymbolBalance ==
  LET d == Count(board, size, p1) - Count(board, size, p2)
  IN  /\ d \in {0, 1}
      /\ state = "InProgress" =>
           /\ (d = 0) <=> (current = 1)
           /\ (d = 1) <=> (current = 2)

C17_Witness ==
  /\ state = "Won"
  /\ lastMover = 1
  /\ Count(board, size, p1) - Count(board, size, p2) = 1

\* C18: every game on a board of size at least 1 ends: at most N*N requests
\* are ever accepted and, with a caller that keeps submitting in-range moves
\* on empty cells, the session eventually is Won or Draw.
C18_EveryGameEnds ==
  (size >= 1) =>
    /\ [](placed <= size * size)
    /\ <>(state = "Won" \/ state = "Draw")

Occurrences(seq, line) == Cardinality({i \in 1 .. Len(seq) : seq[i] = line})

\* C19: every key of the count map is a line read that contains "Error", its
\* count is the number of lines read equal to it, and a line without "Error"
\* adds no entry and no count.
C19_OnlyErrorLinesCounted ==
  /\ \A k \in DOMAIN errorcount :
       /\ Contains(k, ErrorWord)
       /\ errorcount[k] = Occurrences(consumed, k)
  /\ \A i \in 1 .. Len(consumed) :
       Contains(consumed[i], ErrorWord) => consumed[i] \in DOMAIN errorcount

====
